---- MODULE Spec2Model ----
(***************************************************************************)
(* Model of src/job_scraper.py: the JobScraperBot pipeline (16 source      *)
(* adapters, skill and recency filters, the seen_jobs store behind one     *)
(* shared sqlite connection and cursor, the Telegram sink) driven by the   *)
(* Flask route index().                                                    *)
(*                                                                         *)
(* Text values are sequences of one-character strings, so that the         *)
(* concatenation done by generate_job_id and the substring test done by    *)
(* matches_skills are computed and not assumed.  Time is counted in whole  *)
(* days: a raw item's date signal is either absent or a timestamp lying    *)
(* `age` days before datetime.now().                                       *)
(***************************************************************************)
EXTENDS Integers, Sequences, FiniteSets, Bags, TLC

VARIABLES
    cfg,      \* JobScraperBot.__init__: telegram credentials set?, max_days_old, skills
    flows,    \* the request threads of the Flask server that may run index()
    returns,  \* environment: for each scraper, what a call of it may return,
              \* i.e. Scrape of every response its site may give
    store,    \* rows of table seen_jobs
    cursor,   \* pending result rows of the one shared self.cursor
    th,       \* per request thread: the frame of index()/process_jobs()
    sent,     \* bag of job ids for which send_telegram has been invoked
    cycles,   \* number of process_jobs calls started so far
    call      \* a helper method called on its own: its arguments and result

vars == <<cfg, flows, returns, store, cursor, th, sent, cycles, call>>

-----------------------------------------------------------------------------
(* Bounds of the exploration *)

MaxCycles == 2      \* process_jobs calls explored
MaxItems  == 2      \* raw items in one response of a site
MaxResponse == 51   \* raw items in a response given to examine_items

-----------------------------------------------------------------------------
(* Text helpers *)

UpperCase == <<"A", "B", "C", "D", "E", "F", "G", "H", "I", "J", "K", "L", "M", "N", "O", "P", "Q", "R", "S", "T", "U", "V", "W", "X", "Y", "Z">>
LowerCase == <<"a", "b", "c", "d", "e", "f", "g", "h", "i", "j", "k", "l", "m", "n", "o", "p", "q", "r", "s", "t", "u", "v", "w", "x", "y", "z">>

\* str.lower() on one character
LowerChar(c) ==
    IF \E i \in DOMAIN UpperCase : UpperCase[i] = c
    THEN LowerCase[CHOOSE i \in DOMAIN UpperCase : UpperCase[i] = c]
    ELSE c

Lower(s) == [i \in 1..Len(s) |-> LowerChar(s[i])]

RECURSIVE LStrip(_)
LStrip(s) == IF s # <<>> /\ Head(s) = " " THEN LStrip(Tail(s)) ELSE s

RECURSIVE RStrip(_)
RStrip(s) ==
    IF s # <<>> /\ s[Len(s)] = " " THEN RStrip(SubSeq(s, 1, Len(s) - 1)) ELSE s

Strip(s) == RStrip(LStrip(s))

\* Python's `sub in s`
Contains(sub, s) ==
    \E i \in 0..(Len(s) - Len(sub)) : SubSeq(s, i + 1, i + Len(sub)) = sub

SP == <<" ">>

\* str.split(sep) for a separator of one character: a list with one more
\* entry than s has separators, ''.split(',') being ['']
RECURSIVE Split(_, _)
Split(s, sep) ==
    IF \A i \in DOMAIN s : s[i] # sep THEN <<s>>
    ELSE LET i == CHOOSE j \in DOMAIN s :
                      s[j] = sep /\ \A k \in 1..(j - 1) : s[k] # sep
         IN  <<SubSeq(s, 1, i - 1)>> \o Split(SubSeq(s, i + 1, Len(s)), sep)

DigitChars == <<"0", "1", "2", "3", "4", "5", "6", "7", "8", "9">>

\* int(m.group(1)) of a string of digits
RECURSIVE ToInt(_)
ToInt(s) ==
    IF s = <<>> THEN 0
    ELSE 10 * ToInt(SubSeq(s, 1, Len(s) - 1))
         + (CHOOSE i \in DOMAIN DigitChars : DigitChars[i] = s[Len(s)]) - 1

\* regex class \s, as far as the phrases use it
SpaceChars == <<" ">>

Class(chars) == {chars[i] : i \in DOMAIN chars}

\* the last position of the longest run of characters of the class cls that
\* starts at position i of s (i - 1 when s[i] is not of the class)
RunEnd(s, i, cls) ==
    CHOOSE j \in (i - 1)..Len(s) :
        /\ \A k \in i..j : s[k] \in cls
        /\ j = Len(s) \/ s[j + 1] \notin cls

\* whether r'(\d+)\s*<unit>' matches s at position i: digits, then blanks,
\* then the unit (giving up digits or blanks never lets the unit match)
MatchesAt(s, i, unit) ==
    LET j == RunEnd(s, i, Class(DigitChars))
        k == RunEnd(s, j + 1, Class(SpaceChars))
    IN  /\ j >= i
        /\ k + Len(unit) <= Len(s)
        /\ SubSeq(s, k + 1, k + Len(unit)) = unit

\* re.search(r'(\d+)\s*<unit>', s): group(1) of the leftmost match, <<>> when
\* there is no match
ReSearch(s, unit) ==
    LET starts == {i \in DOMAIN s : MatchesAt(s, i, unit)}
    IN  IF starts = {} THEN <<>>
        ELSE LET i == CHOOSE m \in starts : \A n \in starts : m <= n
             IN  SubSeq(s, i, RunEnd(s, i, Class(DigitChars)))

-----------------------------------------------------------------------------
(* Job helpers *)

\* hashlib.md5(...).hexdigest(), taken to be injective on its input
md5(s) == <<"#">> \o s

generate_job_id(title, company, url) == md5(title \o company \o url)

\* matches_skills without the strip() of each skill
matches_skills_NoStrip(job_text) ==
    LET job_text_lower == Lower(job_text)
    IN  \E n \in DOMAIN cfg.skills : Contains(cfg.skills[n], job_text_lower)

matches_skills(job_text) ==
    LET job_text_lower == Lower(job_text)
    IN  \E n \in DOMAIN cfg.skills : Contains(Strip(cfg.skills[n]), job_text_lower)

FreshWords == {<<"t", "o", "d", "a", "y">>,
               <<"j", "u", "s", "t", " ", "n", "o", "w">>,
               <<"m", "i", "n", "u", "t", "e", "s", " ", "a", "g", "o">>,
               <<"h", "o", "u", "r", "s", " ", "a", "g", "o">>,
               <<"h", "o", "u", "r", " ", "a", "g", "o">>}
Yesterday == <<"y", "e", "s", "t", "e", "r", "d", "a", "y">>
DayWord   == <<"d", "a", "y">>
WeekWord  == <<"w", "e", "e", "k">>
MonthWord == <<"m", "o", "n", "t", "h">>

\* parse_days_ago trying the weeks before the days
parse_days_ago_WeeksFirst(date_str) ==
    IF date_str = <<>> THEN 999
    ELSE LET date_lower   == Lower(date_str)
             days_match   == ReSearch(date_lower, DayWord)
             weeks_match  == ReSearch(date_lower, WeekWord)
             months_match == ReSearch(date_lower, MonthWord)
         IN  IF \E w \in FreshWords : Contains(w, date_lower) THEN 0
             ELSE IF Contains(Yesterday, date_lower) THEN 1
             ELSE IF weeks_match # <<>> THEN ToInt(weeks_match) * 7
             ELSE IF days_match # <<>> THEN ToInt(days_match)
             ELSE IF months_match # <<>> THEN ToInt(months_match) * 30
             ELSE 999

parse_days_ago(date_str) ==
    IF date_str = <<>> THEN 999
    ELSE LET date_lower   == Lower(date_str)
             days_match   == ReSearch(date_lower, DayWord)
             weeks_match  == ReSearch(date_lower, WeekWord)
             months_match == ReSearch(date_lower, MonthWord)
         IN  IF \E w \in FreshWords : Contains(w, date_lower) THEN 0
             ELSE IF Contains(Yesterday, date_lower) THEN 1
             ELSE IF days_match # <<>> THEN ToInt(days_match)
             ELSE IF weeks_match # <<>> THEN ToInt(weeks_match) * 7
             ELSE IF months_match # <<>> THEN ToInt(months_match) * 30
             ELSE 999

is_recent_job(days_ago) == days_ago <= cfg.max_days_old

\* JobId with the portal hashed in
JobId_WithPortal(job) ==
    generate_job_id(job.title, job.company, job.link \o <<job.portal>>)

\* process_jobs: self.generate_job_id(job['title'], job['company'], job['link'])
JobId(job) == generate_job_id(job.title, job.company, job.link)

StoreIds == {row.job_id : row \in store}

-----------------------------------------------------------------------------
(* The scrapers, in the order of the list in scrape_all_portals.           *)
(*   dated    : days_ago comes from the item's date signal and is checked  *)
(*              with is_recent_job; otherwise days_ago is the constant     *)
(*              `fixed`, never checked, and each card has its own          *)
(*              try/except that skips a card that raises                   *)
(*   sentinel : days_ago when the date signal is absent or unparseable     *)
(*   skip,cap : the slice [skip : skip+cap] of the item list; cap = -1     *)
(*              for no slice                                               *)
(*   withCompany : whether the text given to matches_skills holds company  *)
(***************************************************************************)

Dated(name, portal, sentinel, skip, cap, withCompany) ==
    [name |-> name, portal |-> portal, dated |-> TRUE, sentinel |-> sentinel,
     fixed |-> 0, skip |-> skip, cap |-> cap, withCompany |-> withCompany]

Fixed(name, portal, days, cap) ==
    [name |-> name, portal |-> portal, dated |-> FALSE, sentinel |-> 0,
     fixed |-> days, skip |-> 0, cap |-> cap, withCompany |-> TRUE]

scrapers == <<
    Dated("scrape_remotive",       "Remotive",         999, 0, -1, FALSE),
    Dated("scrape_indeed",         "Indeed",             0, 0, 30, FALSE),
    Dated("scrape_remoteok",       "RemoteOK",           0, 1, 30, FALSE),
    Fixed("scrape_linkedin",       "LinkedIn",           1, 20),
    Fixed("scrape_glassdoor",      "Glassdoor",          3, 20),
    Dated("scrape_stackoverflow",  "Stack Overflow",     0, 0, 20, TRUE),
    Dated("scrape_github",         "GitHub Jobs",      999, 0, 20, TRUE),
    Fixed("scrape_angelco",        "AngelList",          2, 15),
    Fixed("scrape_monster",        "Monster",            4, 15),
    Fixed("scrape_dice",           "Dice",               3, 15),
    Fixed("scrape_flexjobs",       "FlexJobs",           2, 15),
    Dated("scrape_weworkremotely", "We Work Remotely",   0, 0, 20, FALSE),
    Fixed("scrape_jobserve",       "Jobserve",           3, 15),
    Fixed("scrape_careerbuilder",  "CareerBuilder",      4, 15),
    Fixed("scrape_simplyhired",    "SimplyHired",        2, 15),
    Fixed("scrape_ziprecruiter",   "ZipRecruiter",       3, 15) >>

NScrapers == Len(scrapers)

PortalIndex(portal) == CHOOSE i \in 1..NScrapers : scrapers[i].portal = portal

\* items[skip : skip+cap]
Slice(sc, items) ==
    LET from == sc.skip + 1
        to   == IF sc.cap < 0 \/ sc.skip + sc.cap > Len(items)
                THEN Len(items) ELSE sc.skip + sc.cap
    IN  SubSeq(items, from, to)

\* (datetime.now() - job_date).days: timedelta.days is the floor of the
\* difference in days, negative for a job_date that lies after now
DaysBetween(hours) == hours \div 24

\* ItemDaysAgo with the operands of the subtraction swapped
ItemDaysAgo_Swapped(sc, item) ==
    IF item.date.kind = "ts" THEN DaysBetween(0 - item.date.hours) ELSE sc.sentinel

\* the try/except around strptime (or `if epoch else now`) of a dated scraper
ItemDaysAgo(sc, item) ==
    IF item.date.kind = "ts" THEN DaysBetween(item.date.hours) ELSE sc.sentinel

JobText(sc, item) ==
    IF sc.dated
    THEN IF sc.withCompany
         THEN item.title \o SP \o item.desc \o SP \o item.company
         ELSE item.title \o SP \o item.desc
    ELSE item.title \o SP \o item.company

JobRecord(sc, item, days_ago) ==
    [title |-> item.title, company |-> item.company, link |-> item.link,
     portal |-> sc.portal,
     posted_date |-> IF sc.dated THEN item.date ELSE [kind |-> "Recently"],
     days_ago |-> days_ago]

\* ParseItems without the `if self.matches_skills(job_text)` around append
RECURSIVE ParseItems_Unfiltered(_, _, _)
ParseItems_Unfiltered(sc, items, jobs) ==
    IF items = <<>> THEN [jobs |-> jobs, raised |-> FALSE]
    ELSE LET item == Head(items)
             rest == Tail(items)
         IN  IF sc.dated
             THEN LET days_ago == ItemDaysAgo(sc, item)
                  IN  IF ~is_recent_job(days_ago)
                      THEN ParseItems_Unfiltered(sc, rest, jobs)
                      ELSE IF item.bad THEN [jobs |-> jobs, raised |-> TRUE]
                      ELSE ParseItems_Unfiltered(sc, rest,
                               Append(jobs, JobRecord(sc, item, days_ago)))
             ELSE IF item.bad THEN ParseItems_Unfiltered(sc, rest, jobs)
                  ELSE ParseItems_Unfiltered(sc, rest,
                           Append(jobs, JobRecord(sc, item, sc.fixed)))

\* The `for` loop over the items of a 200 response.  An item with bad = TRUE
\* raises while its text is built (after the recency test of a dated scraper):
\* in a dated scraper the exception leaves the loop for the scraper's outer
\* `except`, in a fixed scraper the card's own `except` skips the card.
RECURSIVE ParseItems(_, _, _)
ParseItems(sc, items, jobs) ==
    IF items = <<>> THEN [jobs |-> jobs, raised |-> FALSE]
    ELSE LET item == Head(items)
             rest == Tail(items)
         IN  IF sc.dated
             THEN LET days_ago == ItemDaysAgo(sc, item)
                  IN  IF ~is_recent_job(days_ago) THEN ParseItems(sc, rest, jobs)
                      ELSE IF item.bad THEN [jobs |-> jobs, raised |-> TRUE]
                      ELSE IF matches_skills(JobText(sc, item))
                           THEN ParseItems(sc, rest,
                                           Append(jobs, JobRecord(sc, item, days_ago)))
                           ELSE ParseItems(sc, rest, jobs)
             ELSE IF item.bad THEN ParseItems(sc, rest, jobs)
                  ELSE IF matches_skills(JobText(sc, item))
                       THEN ParseItems(sc, rest,
                                       Append(jobs, JobRecord(sc, item, sc.fixed)))
                       ELSE ParseItems(sc, rest, jobs)

\* What the loop of a scraper decides about one well-formed item: the id its
\* record has (or would have had), and the two tests the item is put to
\* (a fixed scraper puts no item to the recency test; its days_ago is sc.fixed).
Examined(sc, item) ==
    [job_id  |-> generate_job_id(item.title, item.company, item.link),
     recent  |-> is_recent_job(IF sc.dated THEN ItemDaysAgo(sc, item) ELSE sc.fixed),
     matches |-> matches_skills(JobText(sc, item))]

\* One scraper call on the response rsp of its site: the list it returns,
\* whether it failed (requests.get raised, a non-200 status, or an exception
\* while parsing), and, when it did not fail, what its loop went through.
\* `return jobs` follows the `except` in every scraper.
Scrape(sc, rsp) ==
    IF rsp.kind = "raise" THEN [jobs |-> <<>>, failed |-> TRUE, raw |-> {}]
    ELSE IF rsp.status # 200 THEN [jobs |-> <<>>, failed |-> TRUE, raw |-> {}]
    ELSE LET items == Slice(sc, rsp.items)
             r     == ParseItems(sc, items, <<>>)
         IN  [jobs |-> r.jobs, failed |-> r.raised,
              raw |-> IF r.raised THEN {}
                      ELSE {Examined(sc, items[n]) :
                               n \in {m \in DOMAIN items : ~items[m].bad}}]

-----------------------------------------------------------------------------
(* jobs.sort(key=lambda x: x['days_ago']) : a stable sort *)

RECURSIVE InsertByDays(_, _)
InsertByDays(sorted, job) ==
    IF sorted = <<>> THEN <<job>>
    ELSE IF Head(sorted).days_ago <= job.days_ago
         THEN <<Head(sorted)>> \o InsertByDays(Tail(sorted), job)
         ELSE <<job>> \o sorted

RECURSIVE SortByDaysAgo(_)
SortByDaysAgo(s) ==
    IF s = <<>> THEN <<>>
    ELSE InsertByDays(SortByDaysAgo(SubSeq(s, 1, Len(s) - 1)), s[Len(s)])

-----------------------------------------------------------------------------
(* What the sites serve.  A raw item is what the source-specific decoding   *)
(* (r.json(), BeautifulSoup) yields for one posting: its extracted fields,  *)
(* its description/tags text, its date signal, and whether building its     *)
(* text raises (tags is null, an element is not a tag, ...).  title,        *)
(* company and link are the values the scraper extracts (the company that   *)
(* scrape_indeed and scrape_weworkremotely cut out of the title included).  *)

\* a timestamp lying `hours` hours before datetime.now() (after it, when
\* negative); Ts(age) is one lying exactly `age` days before it
Hours(hours) == [kind |-> "ts", hours |-> hours]
Ts(age) == Hours(24 * age)
NoDate  == [kind |-> "none"]

Item(title, company, link, desc, date, bad) ==
    [title |-> title, company |-> company, link |-> link, desc |-> desc,
     date |-> date, bad |-> bad]

\* two postings whose (title, company) differ but concatenate alike
ItemA    == Item(<<"a","b">>, <<"c">>,     <<"u">>, <<>>,    Ts(2), FALSE)
ItemB    == Item(<<"a">>,     <<"b","c">>, <<"u">>, <<"B">>, Ts(5), FALSE)
\* a posting one day older than the configured maximum
ItemOld  == Item(<<"o","b">>, <<"c">>,     <<"u">>, <<>>,    Ts(cfg.max_days_old + 1), FALSE)
\* a posting that matches no skill
ItemOff  == Item(<<"x">>,     <<"c">>,     <<"u">>, <<>>,    Ts(2), FALSE)
\* a posting whose decoding raises
ItemBad  == Item(<<"a","b">>, <<"c">>,     <<"u">>, <<>>,    Ts(2), TRUE)
\* a card of an HTML portal
ItemM    == Item(<<"m","b">>, <<"c">>,     <<"u">>, <<>>,    NoDate, FALSE)
ItemMBad == Item(<<"m","b">>, <<"c">>,     <<"u">>, <<>>,    NoDate, TRUE)

\* a posting without any date signal
ItemUndated == Item(<<"n","b">>, <<"c">>,  <<"u">>, <<>>,    NoDate, FALSE)
\* a posting whose timestamp lies five hours after now
ItemFuture  == Item(<<"f","b">>, <<"c">>,  <<"u">>, <<>>,    Hours(0 - 5), FALSE)
\* a posting made 47 hours ago
ItemRecent  == Item(<<"r","b">>, <<"c">>,  <<"u">>, <<>>,    Hours(47), FALSE)

\* the posting of ItemRecent as another feed dates it, 100 hours ago
ItemRepost  == Item(<<"r","b">>, <<"c">>,  <<"u">>, <<>>,    Hours(100), FALSE)

\* the lists of at most n items of S that hold no item twice
SeqsUpTo(S, n) ==
    {s \in UNION {[1..m -> S] : m \in 0..n} :
        \A i, j \in DOMAIN s : s[i] = s[j] => i = j}

Http(status, items) == [kind |-> "http", status |-> status, items |-> items]

\* requests.get raises (timeout, connection error), or a non-success status
Failures == {[kind |-> "raise"], Http(503, <<>>)}

\* a site that is down, or whose markup no longer matches (zero items)
Quiet == Failures \cup {Http(200, <<>>)}

Serving(items) == Failures \cup {Http(200, s) : s \in SeqsUpTo(items, MaxItems)}

-----------------------------------------------------------------------------
(* Flask dashboard: request.authorization of an incoming request *)

Credentials ==
    {[given |-> FALSE, username |-> "", password |-> ""]} \cup
    {[given |-> TRUE, username |-> u, password |-> p] :
        u \in {"admin", "guest"}, p \in {"password", "letmein"}}

\* check_auth comparing the user name only
check_auth_UserOnly(username, password) ==
    username = cfg.dash_user

check_auth(username, password) ==
    username = cfg.dash_user /\ password = cfg.dash_pass

-----------------------------------------------------------------------------
(* State *)

NoLast == [status |-> 0, triples |-> {}]

NoAuth == [given |-> FALSE, username |-> "", password |-> ""]

\* no helper method is being called on its own
NoCall == [fn |-> "", done |-> TRUE]

IdleFrame(last) ==
    [pc |-> "idle", resp |-> 0, idx |-> 0, inflight |-> {}, invoked |-> <<>>,
     fetched |-> [failed |-> FALSE, n |-> 0], any_failed |-> FALSE,
     all_jobs |-> <<>>, jobs |-> <<>>, k |-> 0, new_count |-> 0,
     look |-> [job_id |-> <<>>, stored |-> FALSE, answered |-> FALSE, seen |-> FALSE],
     tg_failed |-> {}, ins |-> {}, notif |-> {}, exc |-> "", last |-> last,
     auth |-> NoAuth, n_sent |-> 0, raw |-> {}]

Triple(job) == <<job.title, job.company, job.link>>

Configs ==
    {[telegram |-> t, max_days_old |-> m, skills |-> << <<"b">>, <<" ","z"," ">> >>,
      dash_user |-> "admin", dash_pass |-> "password"] :
        t \in BOOLEAN, m \in {3, 10}}

\* What the site of scraper i may answer.
\* remotive.com serving fresh, stale, unmatching and malformed jobs, Monster
\* serving cards, the other sites down or empty
SitesOne(i) ==
    IF scrapers[i].name = "scrape_remotive"
    THEN Serving({ItemA, ItemB, ItemOld, ItemOff, ItemBad})
    ELSE IF scrapers[i].name = "scrape_monster"
    THEN Serving({ItemM, ItemMBad})
    ELSE Quiet

\* the same with well-formed postings only
SitesWatch(i) ==
    IF scrapers[i].name = "scrape_remotive"
    THEN Serving({ItemA, ItemB, ItemOff})
    ELSE IF scrapers[i].name = "scrape_monster"
    THEN Serving({ItemM})
    ELSE Quiet

\* remotive.com and the Indeed feed serving undated, future and hour-dated
\* items, one posting being in both
SitesDates(i) ==
    IF scrapers[i].name = "scrape_remotive"
    THEN Serving({ItemUndated, ItemFuture, ItemRecent})
    ELSE IF scrapers[i].name = "scrape_indeed"
    THEN Serving({ItemUndated, ItemRepost})
    ELSE {Http(200, <<>>)}

\* every site up, remotive.com serving two postings
SitesTwo(i) ==
    IF scrapers[i].name = "scrape_remotive"
    THEN {Http(200, s) : s \in SeqsUpTo({ItemA, ItemB}, MaxItems)}
    ELSE {Http(200, <<>>)}

Sites(sites, i) ==
    CASE sites = "one"   -> SitesOne(i)
      [] sites = "watch" -> SitesWatch(i)
      [] sites = "dates" -> SitesDates(i)
      [] sites = "two"   -> SitesTwo(i)

\* what scrape_all_portals gets from a scraper: its list (and, for the
\* specification that follows the items, what its loop went through)
Returned(r, observe) == IF observe THEN r ELSE [r EXCEPT !.raw = {}]

\* sites names what the sites serve: Sites(sites, i) are the responses the
\* site of scraper i may give
InitObserving(fl, sites, cf, observe) ==
    /\ cfg \in cf
    /\ flows = fl
    /\ returns = [i \in 1..NScrapers |->
                     {Returned(Scrape(scrapers[i], rsp), observe) : rsp \in Sites(sites, i)}]
    /\ store = {}
    /\ cursor = <<>>
    /\ th = [f \in fl |-> IdleFrame(NoLast)]
    /\ sent = EmptyBag
    /\ cycles = 0
    /\ call = NoCall

InitWith(fl, sites, cf) == InitObserving(fl, sites, cf, FALSE)

\* one request at a time: consecutive cycles
Init == InitWith({1}, "one", Configs)

\* consecutive cycles with the Telegram credentials set, the items each
\* scraper went through being followed
InitWatch ==
    InitObserving({1}, "watch", {c \in Configs : c.telegram}, TRUE)

\* consecutive cycles over feeds whose items are undated, dated in the future
\* or dated in hours; the Telegram credentials are set, MAX_DAYS_OLD is 10
\* or 999
ConfigsDates ==
    {[c EXCEPT !.max_days_old = m] :
        c \in {d \in Configs : d.telegram}, m \in {10, 999}}

InitDates == InitWith({1}, "dates", ConfigsDates)

\* JOB_SKILLS as __init__ reads it: os.getenv(...).lower().split(',')
LoadSkills(env) == Split(Lower(env), ",")

\* values of JOB_SKILLS: plain, with capitals, with blanks after the comma,
\* with a trailing comma, empty, blank
EnvSkills ==
    {<<"j", "a", "v", "a">>,
     <<"J", "a", "v", "a", ",", "S", "Q", "L">>,
     <<"j", "a", "v", "a", ",", " ", "s", "q", "l">>,
     <<"g", "o", ",">>,
     <<>>,
     <<" ">>,
     <<"r", "u", "s", "t", " ", ",", " ", "c">>}

ConfigsCalls ==
    {[telegram |-> TRUE, max_days_old |-> 10, skills |-> LoadSkills(env),
      dash_user |-> "admin", dash_pass |-> "password"] : env \in EnvSkills}

Texts ==
    {<<"J", "a", "v", "a", "S", "c", "r", "i", "p", "t", " ", "d", "e", "v", "e", "l", "o", "p", "e", "r">>,
     <<"M", "y", "S", "Q", "L", " ", "a", "d", "m", "i", "n">>,
     <<"P", "a", "i", "n", "t", "e", "r">>,
     <<>>}

Phrases ==
    {<<"t", "o", "d", "a", "y">>,
     <<"Y", "e", "s", "t", "e", "r", "d", "a", "y">>,
     <<"3", " ", "d", "a", "y", "s", " ", "a", "g", "o">>,
     <<"2", " ", "w", "e", "e", "k", "s", " ", "a", "g", "o">>,
     <<"1", " ", "m", "o", "n", "t", "h", " ", "a", "g", "o">>,
     <<>>,
     <<"J", "u", "s", "t", " ", "n", "o", "w">>,
     <<"5", " ", "m", "i", "n", "u", "t", "e", "s", " ", "a", "g", "o">>,
     <<"2", " ", "h", "o", "u", "r", "s", " ", "a", "g", "o">>,
     <<"1", " ", "h", "o", "u", "r", " ", "a", "g", "o">>,
     <<"y", "e", "s", "t", "e", "r", "d", "a", "y", " ", "2", " ", "d", "a", "y", "s">>,
     <<"t", "o", "d", "a", "y", " ", "1", " ", "w", "e", "e", "k">>,
     <<"1", " ", "w", "e", "e", "k", " ", "3", " ", "d", "a", "y", "s">>,
     <<"2", " ", "m", "o", "n", "t", "h", "s", " ", "1", " ", "w", "e", "e", "k">>,
     <<"1", "2", " ", "d", "a", "y", "s">>,
     <<"2", " ", "d", "a", "y", "s", " ", "9", " ", "d", "a", "y", "s">>,
     <<"3", "d", "a", "y", "s">>,
     <<"s", "o", "o", "n">>,
     <<"1", "0", " ", "m", "o", "n", "t", "h", "s">>}

\* a helper method about to be called on its own
Pending(fn, arg) == [fn |-> fn, arg |-> arg, done |-> FALSE, out |-> "none"]

\* a response of n raw items, each standing for itself
Numbered(n) == [i \in 1..n |-> i]

Calls ==
    {Pending("matches_skills", t) : t \in Texts}
    \cup {Pending("parse_days_ago", p) : p \in Phrases}
    \cup {Pending("examine_items", [scraper |-> i, items |-> Numbered(n)]) :
             i \in 1..NScrapers, n \in 0..MaxResponse}

\* the bot constructed, no request served: its helper methods called on
\* their own, each on one argument
InitCalls ==
    /\ cfg \in ConfigsCalls
    /\ flows = {}
    /\ returns = [i \in 1..NScrapers |-> {}]
    /\ store = {}
    /\ cursor = <<>>
    /\ th = [f \in {} |-> IdleFrame(NoLast)]
    /\ sent = EmptyBag
    /\ cycles = 0
    /\ call \in Calls

\* Flask serves requests on threads (app.run, threaded by default) and the
\* connection is opened with check_same_thread=False: two requests may run
\* process_jobs at once on the one connection and cursor
InitTwo ==
    InitWith({1, 2}, "two", {c \in Configs : c.telegram /\ c.max_days_old = 10})

-----------------------------------------------------------------------------
(* index(): the only route.  Unauthorised requests get 401; an authorised   *)
(* one calls bot.process_jobs(), whose first statement is                   *)
(* scrape_all_portals().                                                    *)

index(f) ==
    /\ f \in flows
    /\ th[f].pc = "idle"
    /\ \E auth \in Credentials :
          IF ~auth.given \/ ~check_auth(auth.username, auth.password)
          THEN /\ th' = [th EXCEPT ![f].resp = 401, ![f].auth = auth]
               /\ UNCHANGED cycles
          ELSE /\ cycles < MaxCycles
               /\ cycles' = cycles + 1
               /\ th' = [th EXCEPT ![f] =
                            [IdleFrame(th[f].last) EXCEPT !.pc = "scrape", !.idx = 1,
                                                          !.auth = auth]]
    /\ UNCHANGED <<call, cfg, flows, returns, store, cursor, sent>>

\* scrape_all_portals: `jobs = scraper()` is entered ...
FetchStart(f) ==
    /\ f \in flows
    /\ th[f].pc = "scrape"
    /\ th[f].idx <= NScrapers
    /\ th' = [th EXCEPT ![f].pc = "fetch",
                        ![f].inflight = @ \cup {th[f].idx},
                        ![f].invoked = Append(@, th[f].idx)]
    /\ UNCHANGED <<call, cfg, flows, returns, store, cursor, sent, cycles>>

\* FetchReturn with the failure of a scraper left uncaught
FetchReturn_Propagates(f) ==
    /\ f \in flows
    /\ th[f].pc = "fetch"
    /\ \E r \in returns[th[f].idx] :
          th' = IF r.failed
                THEN [th EXCEPT ![f].pc = "raised",
                                ![f].inflight = @ \ {th[f].idx},
                                ![f].exc = "requests.RequestException"]
                ELSE [th EXCEPT ![f].pc = "scrape",
                                ![f].inflight = @ \ {th[f].idx},
                                ![f].fetched = [failed |-> FALSE, n |-> Len(r.jobs)],
                                ![f].all_jobs = @ \o r.jobs,
                                ![f].raw = @ \cup r.raw,
                                ![f].idx = @ + 1]
    /\ UNCHANGED <<call, cfg, flows, returns, store, cursor, sent, cycles>>

\* FetchReturn with a `break` after a failed scraper
FetchReturn_Breaks(f) ==
    /\ f \in flows
    /\ th[f].pc = "fetch"
    /\ \E r \in returns[th[f].idx] :
          th' = [th EXCEPT ![f].pc = "scrape",
                           ![f].inflight = @ \ {th[f].idx},
                           ![f].fetched = [failed |-> r.failed, n |-> Len(r.jobs)],
                           ![f].any_failed = @ \/ r.failed,
                           ![f].all_jobs = @ \o r.jobs,
                           ![f].raw = @ \cup r.raw,
                           ![f].idx = IF r.failed THEN NScrapers + 1 ELSE @ + 1]
    /\ UNCHANGED <<call, cfg, flows, returns, store, cursor, sent, cycles>>

\* ... and returns r, one of the lists Scrape yields on a response of the
\* scraper's site; all_jobs.extend(jobs); time.sleep(2); next scraper
FetchReturn(f) ==
    /\ f \in flows
    /\ th[f].pc = "fetch"
    /\ \E r \in returns[th[f].idx] :
          th' = [th EXCEPT ![f].pc = "scrape",
                           ![f].inflight = @ \ {th[f].idx},
                           ![f].fetched = [failed |-> r.failed, n |-> Len(r.jobs)],
                           ![f].any_failed = @ \/ r.failed,
                           ![f].all_jobs = @ \o r.jobs,
                           ![f].raw = @ \cup r.raw,
                           ![f].idx = @ + 1]
    /\ UNCHANGED <<call, cfg, flows, returns, store, cursor, sent, cycles>>

\* process_jobs: scrape_all_portals has returned; jobs.sort(...); new_count = 0
SortJobs(f) ==
    /\ f \in flows
    /\ th[f].pc = "scrape"
    /\ th[f].idx > NScrapers
    /\ th' = [th EXCEPT ![f].pc = "loop",
                        ![f].fetched = [failed |-> FALSE, n |-> 0],
                        ![f].jobs = SortByDaysAgo(th[f].all_jobs),
                        ![f].k = 1,
                        ![f].new_count = 0]
    /\ UNCHANGED <<call, cfg, flows, returns, store, cursor, sent, cycles>>

CurJob(f) == th[f].jobs[th[f].k]

\* is_job_seen, first statement: self.cursor.execute('SELECT ...')
SelectExecute(f) ==
    /\ f \in flows
    /\ th[f].pc = "loop"
    /\ th[f].k <= Len(th[f].jobs)
    /\ LET job_id == JobId(CurJob(f))
       IN  /\ cursor' = IF job_id \in StoreIds THEN <<job_id>> ELSE <<>>
           /\ th' = [th EXCEPT ![f].pc = "fetchone",
                               ![f].look = [job_id |-> job_id,
                                            stored |-> job_id \in StoreIds,
                                            answered |-> FALSE, seen |-> FALSE]]
    /\ UNCHANGED <<call, cfg, flows, returns, store, sent, cycles>>

\* is_job_seen, second statement: self.cursor.fetchone() is not None;
\* then the `if not self.is_job_seen(job_id)` of process_jobs
Fetchone(f) ==
    /\ f \in flows
    /\ th[f].pc = "fetchone"
    /\ LET seen == cursor # <<>>
       IN  /\ cursor' = IF seen THEN Tail(cursor) ELSE cursor
           /\ th' = IF seen
                    THEN [th EXCEPT ![f].pc = "loop", ![f].k = @ + 1,
                                    ![f].look.answered = TRUE,
                                    ![f].look.seen = TRUE]
                    ELSE [th EXCEPT ![f].pc =
                                        IF cfg.telegram THEN "send" ELSE "mark",
                                    ![f].look.answered = TRUE,
                                    ![f].look.seen = FALSE]
    /\ UNCHANGED <<call, cfg, flows, returns, store, sent, cycles>>

\* send_telegram without its try/except around requests.post
send_telegram_Propagates(f) ==
    /\ f \in flows
    /\ th[f].pc = "send"
    /\ sent' = sent (+) SetToBag({JobId(th[f].jobs[th[f].k])})
    /\ \E outcome \in {"200", "400", "raise"} :
          th' = IF outcome = "raise"
                THEN [th EXCEPT ![f].pc = "raised",
                                ![f].n_sent = @ + 1,
                                ![f].notif = @ \cup {JobId(th[f].jobs[th[f].k])},
                                ![f].tg_failed = @ \cup {JobId(th[f].jobs[th[f].k])},
                                ![f].exc = "requests.RequestException"]
                ELSE [th EXCEPT ![f].pc = "mark",
                                ![f].n_sent = @ + 1,
                                ![f].notif = @ \cup {JobId(th[f].jobs[th[f].k])},
                                ![f].tg_failed = IF outcome = "200" THEN @
                                                 ELSE @ \cup {JobId(th[f].jobs[th[f].k])}]
    /\ UNCHANGED <<call, cfg, flows, returns, store, cursor, cycles>>

\* send_telegram(job): requests.post answers 200, answers another status, or
\* raises; the last two are logged and the call returns normally
send_telegram(f) ==
    /\ f \in flows
    /\ th[f].pc = "send"
    /\ sent' = sent (+) SetToBag({JobId(CurJob(f))})
    /\ \E outcome \in {"200", "400", "raise"} :
          th' = [th EXCEPT ![f].pc = "mark",
                           ![f].n_sent = @ + 1,
                           ![f].notif = @ \cup {JobId(CurJob(f))},
                           ![f].tg_failed = IF outcome = "200" THEN @
                                            ELSE @ \cup {JobId(CurJob(f))}]
    /\ UNCHANGED <<call, cfg, flows, returns, store, cursor, cycles>>

Row(job) ==
    [job_id |-> JobId(job), title |-> job.title, company |-> job.company,
     url |-> job.link, portal |-> job.portal, posted_date |-> job.posted_date,
     days_ago |-> job.days_ago]

\* Insert whose row never reaches the table (no commit)
Insert_Lost(table, row) == table

\* Insert as INSERT OR REPLACE
Insert_OrReplace(table, row) ==
    {r \in table : r.job_id # row.job_id} \cup {row}

\* Insert into a table that keeps the latest row only
Insert_Latest(table, row) == {row}

\* INSERT INTO seen_jobs with job_id TEXT PRIMARY KEY: a second row with the
\* same job_id raises sqlite3.IntegrityError and the table is left as it is
Insert(table, row) ==
    IF row.job_id \in {r.job_id : r \in table} THEN table ELSE table \cup {row}

\* mark_job_seen(...) returning normally (insert and commit, or the
\* IntegrityError swallowed by `pass`); new_count += 1; next job
mark_job_seen(f) ==
    /\ f \in flows
    /\ th[f].pc = "mark"
    /\ store' = Insert(store, Row(CurJob(f)))
    /\ cursor' = <<>>
    /\ th' = [th EXCEPT ![f].pc = "loop",
                        ![f].ins = IF store' # store THEN @ \cup {JobId(CurJob(f))} ELSE @,
                        ![f].new_count = @ + 1,
                        ![f].k = @ + 1]
    /\ UNCHANGED <<call, cfg, flows, returns, sent, cycles>>

\* mark_job_seen(...) raising anything but IntegrityError (database locked,
\* disk I/O error): not caught in mark_job_seen nor in process_jobs
StoreFailure(f) ==
    /\ f \in flows
    /\ th[f].pc = "mark"
    /\ cursor' = <<>>
    /\ th' = [th EXCEPT ![f].pc = "raised", ![f].exc = "sqlite3.OperationalError"]
    /\ UNCHANGED <<call, cfg, flows, returns, store, sent, cycles>>

\* process_jobs: the loop is over; log the tally; return jobs
ProcessEnd(f) ==
    /\ f \in flows
    /\ th[f].pc = "loop"
    /\ th[f].k > Len(th[f].jobs)
    /\ th' = [th EXCEPT ![f].pc = "returned"]
    /\ UNCHANGED <<call, cfg, flows, returns, store, cursor, sent, cycles>>

\* index() answers: the rendered jobs (200), or Flask's 500 for the exception
Respond(f) ==
    /\ f \in flows
    /\ th[f].pc \in {"returned", "raised"}
    /\ th' = [th EXCEPT ![f] =
                 IF th[f].pc = "returned"
                 THEN [IdleFrame([status |-> 200,
                                  triples |-> {Triple(th[f].jobs[n]) :
                                                  n \in DOMAIN th[f].jobs}])
                          EXCEPT !.resp = 200]
                 ELSE [IdleFrame([status |-> 500, triples |-> {}])
                          EXCEPT !.resp = 500]]
    /\ UNCHANGED <<call, cfg, flows, returns, store, cursor, sent, cycles>>

\* the request threads a specification may let run
Threads == {1, 2}

Next ==
    \E f \in Threads :
        \/ index(f)
        \/ FetchStart(f)
        \/ FetchReturn(f)
        \/ SortJobs(f)
        \/ SelectExecute(f)
        \/ Fetchone(f)
        \/ send_telegram(f)
        \/ mark_job_seen(f)
        \/ StoreFailure(f)
        \/ ProcessEnd(f)
        \/ Respond(f)

Spec == Init /\ [][Next]_vars

-----------------------------------------------------------------------------
(* The helper methods called on their own *)

Return(out) ==
    /\ call' = [call EXCEPT !.done = TRUE, !.out = out]
    /\ UNCHANGED <<cfg, flows, returns, store, cursor, th, sent, cycles>>

call_matches_skills ==
    /\ call.fn = "matches_skills" /\ ~call.done
    /\ Return(matches_skills(call.arg))

call_parse_days_ago ==
    /\ call.fn = "parse_days_ago" /\ ~call.done
    /\ Return(parse_days_ago(call.arg))

\* the `for` loop of a scraper over the items of a 200 response: the number
\* of items it iterates over
examine_items ==
    /\ call.fn = "examine_items" /\ ~call.done
    /\ Return(Len(Slice(scrapers[call.arg.scraper], call.arg.items)))

NextCalls ==
    \/ call_matches_skills
    \/ call_parse_days_ago
    \/ examine_items

SpecCalls == InitCalls /\ [][NextCalls]_vars

SpecTwo == InitTwo /\ [][Next]_vars

SpecDates == InitDates /\ [][Next]_vars

SpecWatch == InitWatch /\ [][Next]_vars

\* The thread that runs a request keeps running, and requests.get returns or
\* raises within its timeout of 15 s
FairSpec ==
    /\ Spec
    /\ WF_vars(FetchStart(1))
    /\ WF_vars(FetchReturn(1))
    /\ WF_vars(SortJobs(1))

-----------------------------------------------------------------------------
(* Properties *)

InProcess(f) == th[f].pc \in {"loop", "fetchone", "send", "mark", "returned", "raised"}

Scraping(f) == th[f].pc \in {"scrape", "fetch"}

AllInvoked(f) == th[f].invoked = [i \in 1..NScrapers |-> i]

\* C1: when the call of process_jobs before this one ran to its end and
\* returned a record with some (title, company, link), and this call's
\* scrapers return a record with the same triple, this call inserts no row
\* for it and does not invoke send_telegram for it.
C1_RepeatedRecordIgnored ==
    \A f \in flows :
        (InProcess(f) /\ th[f].last.status = 200) =>
            \A n \in DOMAIN th[f].jobs :
                Triple(th[f].jobs[n]) \in th[f].last.triples =>
                    /\ JobId(th[f].jobs[n]) \notin th[f].ins
                    /\ JobId(th[f].jobs[n]) \notin th[f].notif

\* a second cycle has ended, with the sink enabled, all of whose records were
\* returned by the cycle before, and it inserted and notified nothing
C1_Witness ==
    \E f \in flows :
        /\ th[f].pc = "returned"
        /\ cfg.telegram
        /\ th[f].last.status = 200
        /\ th[f].jobs # <<>>
        /\ \A n \in DOMAIN th[f].jobs : Triple(th[f].jobs[n]) \in th[f].last.triples
        /\ th[f].ins = {} /\ th[f].notif = {}
        /\ th[f].new_count = 0

\* C2: over any sequence of cycles, also one aborted by a store failure in
\* mark_job_seen, send_telegram is invoked at most once for each job id.
C2_NotifiedAtMostOnce ==
    \A id \in BagToSet(sent) : CopiesIn(id, sent) <= 1

\* C3: at the moment send_telegram is invoked for a job, a row with that
\* job's id is already in seen_jobs.
C3_InsertedBeforeNotified ==
    \A f \in flows :
        th[f].pc = "send" => JobId(CurJob(f)) \in StoreIds

\* C4: a failed notification (requests.post raises or answers a non-success
\* status) never aborts the cycle: only a store failure does; the job whose
\* notification failed is marked seen by the mark_job_seen that follows, and
\* a cycle that returns has been through all its records, each of them in
\* seen_jobs.
C4_NotificationFailureIsolated ==
    \A f \in flows :
        /\ th[f].pc = "raised" => th[f].exc = "sqlite3.OperationalError"
        /\ \A id \in th[f].tg_failed :
              \/ id \in StoreIds
              \/ th[f].pc \in {"mark", "raised"} /\ JobId(CurJob(f)) = id
        /\ th[f].pc = "returned" =>
              /\ th[f].k = Len(th[f].jobs) + 1
              /\ \A n \in DOMAIN th[f].jobs : JobId(th[f].jobs[n]) \in StoreIds

\* a cycle has returned in which the notification of the first record failed
\* and a later record was inserted all the same
C4_Witness ==
    \E f \in flows :
        /\ th[f].pc = "returned"
        /\ Len(th[f].jobs) >= 2
        /\ JobId(th[f].jobs[1]) \in th[f].tg_failed
        /\ JobId(th[f].jobs[1]) \in th[f].ins
        /\ JobId(th[f].jobs[Len(th[f].jobs)]) \in th[f].ins \ th[f].tg_failed

\* C5: whichever scrapers fail, scrape_all_portals goes on to invoke every
\* scraper of its list and returns a list; process_jobs is never left by an
\* exception of a scraper (only by a store failure), and returns the list.
C5_AdapterFailureIsolated ==
    \A f \in flows :
        /\ th[f].pc = "raised" => th[f].exc = "sqlite3.OperationalError"
        /\ th[f].any_failed => th[f].pc # "idle"
        /\ (InProcess(f) \/ (th[f].pc = "scrape" /\ th[f].idx > NScrapers)) =>
              AllInvoked(f)
        /\ th[f].pc = "scrape" => th[f].idx = Len(th[f].invoked) + 1
        /\ th[f].pc = "returned" => Len(th[f].jobs) = Len(th[f].all_jobs)

\* a cycle in which a scraper failed has returned a non-empty list, none of
\* it from the first scraper
C5_Witness ==
    \E f \in flows :
        /\ th[f].pc = "returned"
        /\ th[f].any_failed
        /\ AllInvoked(f)
        /\ th[f].jobs # <<>>
        /\ \A n \in DOMAIN th[f].jobs : th[f].jobs[n].portal # "Remotive"

\* C6: a scraper that failed (non-200, or an exception anywhere in fetching
\* or parsing) returns the empty list.
C6_FailedAdapterReturnsNothing ==
    \A f \in flows :
        th[f].fetched.failed => th[f].fetched.n = 0

\* C7: every record a scraper emitted and every row of seen_jobs has
\* days_ago <= max_days_old, whatever max_days_old is configured.
C7_NothingOlderThanMax ==
    /\ \A f \in flows : \A n \in DOMAIN th[f].all_jobs :
          th[f].all_jobs[n].days_ago <= cfg.max_days_old
    /\ \A row \in store : row.days_ago <= cfg.max_days_old

\* C8: with two requests interleaving on the shared cursor, every
\* is_job_seen(id) answers true only if a row with that id is in seen_jobs,
\* and false only if there was none when it ran its SELECT.
C8_LookupAnswersItsOwnQuery ==
    \A f \in flows :
        th[f].look.answered =>
            /\ th[f].look.seen => th[f].look.job_id \in StoreIds
            /\ ~th[f].look.seen => ~th[f].look.stored

C9_Order(f) ==
    /\ th[f].invoked = [i \in 1..Len(th[f].invoked) |-> i]
    /\ Cardinality(th[f].inflight) <= 1
    /\ th[f].pc = "fetch" <=> th[f].inflight # {}
    /\ \A m, n \in DOMAIN th[f].all_jobs :
          m < n => PortalIndex(th[f].all_jobs[m].portal)
                      <= PortalIndex(th[f].all_jobs[n].portal)
    /\ \A n \in DOMAIN th[f].all_jobs :
          PortalIndex(th[f].all_jobs[n].portal) \in 1..Len(th[f].invoked)
    /\ InProcess(f) => AllInvoked(f)

\* C9: in every cycle the scrapers are invoked one at a time, each once, in
\* the order of the list; the accumulator holds their records in that order,
\* whichever of them failed; and a cycle that is scraping reaches the end of
\* scrape_all_portals.
C9_SequentialInFixedOrder ==
    /\ [](\A f \in flows : C9_Order(f))
    /\ Scraping(1) ~> (th[1].pc = "loop")

\* scrape_all_portals has returned records of two portals after a failure
C9_Witness ==
    \E f \in flows :
        /\ th[f].pc = "loop"
        /\ th[f].any_failed
        /\ AllInvoked(f)
        /\ \E m, n \in DOMAIN th[f].all_jobs :
              th[f].all_jobs[m].portal # th[f].all_jobs[n].portal

C10_OneRowPerId ==
    \A r1, r2 \in store : r1.job_id = r2.job_id => r1 = r2

\* a step in which mark_job_seen is called for an id that has a row already
C10_DuplicateInsert(f) ==
    /\ f \in flows
    /\ th[f].pc = "mark"
    /\ JobId(CurJob(f)) \in StoreIds
    /\ th'[f].pc # "mark"
    /\ th'[f].exc = ""

\* C10: seen_jobs never holds two rows with one job_id; a mark_job_seen for
\* an id that has a row already (and that the store does not fail) returns
\* normally and leaves the table, so the first row's fields, as they were.
C10_InsertIdempotent ==
    /\ []C10_OneRowPerId
    /\ [][\A f \in Threads :
            C10_DuplicateInsert(f) => (store' = store /\ th'[f].pc = "loop")]_vars

\* a mark_job_seen has returned without inserting: its id had a row, with
\* other fields than those it was given
C10_Witness ==
    \E f \in flows :
        /\ th[f].pc = "loop"
        /\ Len(th[f].jobs) = 1 /\ th[f].k = 2
        /\ th[f].new_count = 1 /\ th[f].ins = {}
        /\ JobId(th[f].jobs[th[f].k - 1]) \in StoreIds
        /\ Row(th[f].jobs[th[f].k - 1]) \notin store

StoreBefore(f) == StoreIds \ th[f].ins

EligibleNew(f) ==
    {x.job_id : x \in {y \in th[f].raw : y.recent /\ y.matches}} \ StoreBefore(f)

\* C11: with the Telegram credentials set, when a call of process_jobs has
\* returned: every id of an examined record that is recent and matches the
\* skills, and that had no row before the call, has exactly one row, inserted
\* by this call, and send_telegram was invoked for it in this call; a record
\* that does not match caused no row and no invocation; when no scraper
\* failed every new row is that of a matching record; and the call invoked
\* send_telegram once for each id it notified, as many times as it
\* inserted rows.
C11_OneEntryOneNotification ==
    \A f \in flows :
        (th[f].pc = "returned" /\ cfg.telegram) =>
            /\ \A id \in EligibleNew(f) :
                  /\ id \in th[f].ins
                  /\ Cardinality({row \in store : row.job_id = id}) = 1
                  /\ id \in th[f].notif
            /\ \A x \in th[f].raw :
                  ~x.matches => /\ x.job_id \notin th[f].ins
                                /\ x.job_id \notin th[f].notif
            /\ ~th[f].any_failed =>
                  \A id \in th[f].ins : \E x \in th[f].raw : x.job_id = id /\ x.matches
            /\ th[f].n_sent = Cardinality(th[f].notif)
            /\ th[f].n_sent = Cardinality(th[f].ins)

\* scenario A: the scrapers went through two records, one recent and
\* matching, one not matching; the call has returned with one new row and
\* one invocation
C11_Witness ==
    \E f \in flows :
        /\ th[f].pc = "returned" /\ cfg.telegram /\ ~th[f].any_failed
        /\ Cardinality(th[f].raw) = 2
        /\ \E x, y \in th[f].raw : x.recent /\ x.matches /\ ~y.matches
        /\ Cardinality(store) = 1
        /\ Cardinality(th[f].ins) = 1
        /\ th[f].n_sent = 1
        /\ BagCardinality(sent) = 1

\* C12: over consecutive cycles no step removes a row of seen_jobs or changes
\* one (every row is still there, with all its fields, after the step), and
\* an is_job_seen(id) run when id has a row answers true.
C12_StoreOnlyGrows ==
    /\ [][\A row \in store : row \in store']_vars
    /\ [](\A f \in flows :
            (th[f].look.answered /\ th[f].look.stored) => th[f].look.seen)

\* a later cycle finds seen an id inserted by an earlier one, next to a row of
\* another id
C12_Witness ==
    \E f \in flows :
        /\ th[f].last.status = 200
        /\ th[f].look.answered /\ th[f].look.seen
        /\ th[f].look.job_id \in StoreIds \ th[f].ins
        /\ Cardinality(store) >= 2

\* C13: a record made from an item without any date signal has days_ago =
\* 999, and is emitted only when max_days_old is at least 999.
C13_UndatedItemIs999 ==
    \A f \in flows : \A n \in DOMAIN th[f].all_jobs :
        th[f].all_jobs[n].posted_date = NoDate =>
            /\ th[f].all_jobs[n].days_ago = 999
            /\ cfg.max_days_old >= 999

Emitted == UNION {{th[f].all_jobs[n] : n \in DOMAIN th[f].all_jobs} : f \in flows}

\* C14 as stated: every emitted record and every row of seen_jobs has
\* days_ago >= 0 (the sentinel 999 included), whatever the item's timestamp.
C14_DaysAgoNeverNegative ==
    /\ \A job \in Emitted : job.days_ago >= 0
    /\ \A row \in store : row.days_ago >= 0

C14_DaysOf(r) ==
    /\ r.days_ago \in Int
    /\ r.posted_date.kind = "ts" =>
          /\ 24 * r.days_ago <= r.posted_date.hours
          /\ r.posted_date.hours < 24 * (r.days_ago + 1)
    /\ r.posted_date.kind = "none" => r.days_ago \in {0, 999}
    /\ r.posted_date.kind = "Recently" => r.days_ago \in 1..4
    /\ r.days_ago < 0 <=> (r.posted_date.kind = "ts" /\ r.posted_date.hours < 0)

\* C14 as amended: every emitted record and every row of seen_jobs has an
\* integer days_ago, which is >= 0 (the whole days elapsed, a constant of the
\* scraper, or a sentinel 0 or 999) unless the item's timestamp lies in the
\* future, and is then the negative floor of the difference in days.
C14_DaysAgoUnclamped ==
    /\ \A job \in Emitted : C14_DaysOf(job)
    /\ \A row \in store : C14_DaysOf(row)

\* seen_jobs holds a row made from a future timestamp, with days_ago = -1,
\* one with the sentinel 999 and one with whole elapsed days
C14_Witness ==
    /\ \E row \in store : row.days_ago = 0 - 1 /\ row.posted_date = Hours(0 - 5)
    /\ \E row \in store : row.days_ago = 999 /\ row.posted_date = NoDate
    /\ \E row \in store : row.days_ago = 1 /\ row.posted_date = Hours(47)

\* C15: whatever the length of the response, the loop of every scraper
\* iterates over at most 50 items.
C15_ExaminesAtMostCap ==
    (call.fn = "examine_items" /\ call.done) => call.out <= 50

\* the entry without the blanks around it
C16_Trimmed(e) ==
    LET idx == {i \in DOMAIN e : e[i] # " "}
    IN  IF idx = {} THEN <<>>
        ELSE SubSeq(e, CHOOSE i \in idx : \A j \in idx : i <= j,
                       CHOOSE i \in idx : \A j \in idx : i >= j)

\* sub occurs in s at some position
C16_Occurs(sub, s) ==
    \E i \in 1..(Len(s) + 1) :
        \A k \in DOMAIN sub : i + k - 1 <= Len(s) /\ s[i + k - 1] = sub[k]

\* C16: matches_skills(T) is true iff the lowercased T has, at some position,
\* an occurrence of the lowercased, trimmed text of some entry of the skill
\* list; an entry that is empty after trimming occurs in every text.
C16_MatchesIffSubstring ==
    (call.fn = "matches_skills" /\ call.done) =>
        (call.out <=>
            \E n \in DOMAIN cfg.skills :
                C16_Occurs(C16_Trimmed(Lower(cfg.skills[n])), Lower(call.arg)))

\* JOB_SKILLS had a trailing comma: the list holds an empty entry, and a text
\* that holds no skill has matched
C16_Witness ==
    /\ call.fn = "matches_skills" /\ call.done
    /\ Len(cfg.skills) = 2 /\ cfg.skills[2] = <<>>
    /\ ~C16_Occurs(cfg.skills[1], Lower(call.arg))
    /\ call.out = TRUE

C17_Expected(p) ==
    CASE p = <<"t", "o", "d", "a", "y">> -> 0
      [] p = <<"Y", "e", "s", "t", "e", "r", "d", "a", "y">> -> 1
      [] p = <<"3", " ", "d", "a", "y", "s", " ", "a", "g", "o">> -> 3
      [] p = <<"2", " ", "w", "e", "e", "k", "s", " ", "a", "g", "o">> -> 14
      [] p = <<"1", " ", "m", "o", "n", "t", "h", " ", "a", "g", "o">> -> 30
      [] p = <<>> -> 999
      [] p = <<"J", "u", "s", "t", " ", "n", "o", "w">> -> 0
      [] p = <<"5", " ", "m", "i", "n", "u", "t", "e", "s", " ", "a", "g", "o">> -> 0
      [] p = <<"2", " ", "h", "o", "u", "r", "s", " ", "a", "g", "o">> -> 0
      [] p = <<"1", " ", "h", "o", "u", "r", " ", "a", "g", "o">> -> 0
      [] p = <<"y", "e", "s", "t", "e", "r", "d", "a", "y", " ", "2", " ", "d", "a", "y", "s">> -> 1
      [] p = <<"t", "o", "d", "a", "y", " ", "1", " ", "w", "e", "e", "k">> -> 0
      [] p = <<"1", " ", "w", "e", "e", "k", " ", "3", " ", "d", "a", "y", "s">> -> 3
      [] p = <<"2", " ", "m", "o", "n", "t", "h", "s", " ", "1", " ", "w", "e", "e", "k">> -> 7
      [] p = <<"1", "2", " ", "d", "a", "y", "s">> -> 12
      [] p = <<"2", " ", "d", "a", "y", "s", " ", "9", " ", "d", "a", "y", "s">> -> 2
      [] p = <<"3", "d", "a", "y", "s">> -> 3
      [] p = <<"s", "o", "o", "n">> -> 999
      [] p = <<"1", "0", " ", "m", "o", "n", "t", "h", "s">> -> 300

\* C17: parse_days_ago gives 0 for today / just now / minutes ago / hours ago
\* / hour ago, else 1 for yesterday, else N for the first "<N> day", else 7N
\* for "<N> week", else 30N for "<N> month", else 999 (the empty phrase
\* too): on each phrase tried, the value this order of tests prescribes.
C17_ParseDaysAgoPrecedence ==
    (call.fn = "parse_days_ago" /\ call.done) => call.out = C17_Expected(call.arg)

\* a phrase naming weeks and days has been classified by its days
C17_Witness ==
    /\ call.fn = "parse_days_ago" /\ call.done
    /\ call.arg = <<"1", " ", "w", "e", "e", "k", " ", "3", " ", "d", "a", "y", "s">>
    /\ call.out = 3

C18_Looking(f) == th[f].pc \in {"fetchone", "send", "mark"}

C18_SameTriple(row, job) ==
    <<row.title, row.company, row.url>> = Triple(job)

\* C18: the id process_jobs computes for a record is the job_id of every row
\* of seen_jobs that has the record's (title, company, url), and the id of
\* every record of the list with that triple, whatever their portal,
\* posted_date and days_ago, wherever the record stands in the list, in
\* whichever cycle, and whatever else seen_jobs holds.
C18_IdDependsOnTripleOnly ==
    \A f \in flows :
        C18_Looking(f) =>
            /\ \A row \in store :
                  C18_SameTriple(row, CurJob(f)) => row.job_id = th[f].look.job_id
            /\ \A n \in DOMAIN th[f].jobs :
                  Triple(th[f].jobs[n]) = Triple(CurJob(f)) =>
                      JobId(th[f].jobs[n]) = th[f].look.job_id

\* a later cycle looks up a record whose triple has a row made in an earlier
\* cycle from another portal, with another posted_date and days_ago, and
\* finds its id there
C18_Witness ==
    \E f \in flows :
        /\ th[f].pc = "fetchone"
        /\ th[f].last.status = 200
        /\ th[f].look.stored
        /\ \E row \in store :
              /\ C18_SameTriple(row, CurJob(f))
              /\ row.job_id = th[f].look.job_id
              /\ row.portal # CurJob(f).portal
              /\ row.days_ago # CurJob(f).days_ago
              /\ row.posted_date # CurJob(f).posted_date

RowOf(job) == {row \in store : C18_SameTriple(row, job)}

\* C19: when process_jobs has returned, every record of its list has a row
\* of its own in seen_jobs, a row with its (title, company, url): two records
\* that differ in title, company or link are both persisted, none of them
\* taken for the other.
C19_DistinctTriplesBothPersisted ==
    \A f \in flows :
        th[f].pc = "returned" =>
            \A n \in DOMAIN th[f].jobs : RowOf(th[f].jobs[n]) # {}

C20_Authorised(auth) ==
    auth.given /\ auth.username = cfg.dash_user /\ auth.password = cfg.dash_pass

\* a step in which index() serves a request of thread f that carries no
\* credentials, or not the configured pair
C20_Rejects(f) ==
    /\ f \in flows
    /\ th[f].pc = "idle"
    /\ th'[f] # th[f]
    /\ ~C20_Authorised(th'[f].auth)

\* C20: a request without credentials, or with a pair that is not the
\* configured one, is answered 401 and leaves the thread out of process_jobs:
\* no scraper invoked, no cycle counted, sent and seen_jobs as they were; and
\* whenever a thread is inside process_jobs its request carried the
\* configured pair.
C20_UnauthorisedRunsNoCycle ==
    /\ [](\A f \in flows : th[f].pc # "idle" => C20_Authorised(th[f].auth))
    /\ [][\A f \in Threads :
            C20_Rejects(f) =>
                /\ th'[f].resp = 401
                /\ th'[f].pc = "idle"
                /\ th'[f].invoked = <<>>
                /\ store' = store /\ sent' = sent /\ cycles' = cycles]_vars

\* after a cycle that stored rows, a request with the right user name and a
\* wrong password has been answered 401
C20_Witness ==
    \E f \in flows :
        /\ th[f].pc = "idle" /\ th[f].resp = 401
        /\ th[f].auth.given
        /\ th[f].auth.username = cfg.dash_user
        /\ th[f].auth.password # cfg.dash_pass
        /\ th[f].last.status = 200
        /\ th[f].invoked = <<>>
        /\ store # {}

====
